---- MODULE Spec2Model ----
(***************************************************************************)
(* Model of the redraw pass of jami-cli's terminal UI (src/ui.rs):         *)
(* draw -> channel labels -> draw_chat -> draw_messages -> draw_members.   *)
(*                                                                         *)
(* Strings are sequences of one-character strings.  A character is known   *)
(* by its UTF-8 length (CharBytes) and its terminal width (CharWidth).     *)
(* Rust indices are kept 0-based; Option<usize> is <<>> (None) or <<i>>.   *)
(***************************************************************************)
EXTENDS Integers, Sequences, FiniteSets, TLC

VARIABLES size, channels, selected, input, input_cursor, frame

vars == <<size, channels, selected, input, input_cursor, frame>>

----------------------------------------------------------------------------
(* Bounds of the model *)

MaxNameLen == 2
MaxChannels == 1
MaxUnread == 3
MaxMessages == 3
MaxInput == 4
MaxHeight == 6
MaxSmallWidth == 6
MaxListWidth == 32
MaxPaneWidth == 34

(* Program constants *)

U16Modulus == 65536
TimeWidth == 6

----------------------------------------------------------------------------
(* Characters and strings *)

\* "e'" stands for U+00E9, "zh" for U+4E2D, "cm" for the combining U+0301,
\* "em" for U+1F600.
CharBytes(c) ==
    CASE c = "e'" -> 2
      [] c = "cm" -> 2
      [] c = "zh" -> 3
      [] c = "em" -> 4
      [] OTHER -> 1

CharWidth(c) ==
    CASE c = "zh" -> 2
      [] c = "em" -> 2
      [] c = "cm" -> 0
      [] OTHER -> 1

RECURSIVE width(_)
width(s) == IF s = <<>> THEN 0 ELSE CharWidth(Head(s)) + width(Tail(s))

RECURSIVE len(_)
len(s) == IF s = <<>> THEN 0 ELSE CharBytes(Head(s)) + len(Tail(s))

Prefix(s, n) == SubSeq(s, 1, n)

\* byte offsets at which a character of s starts, plus the end of s
Boundaries(s) == { len(Prefix(s, n)) : n \in 0..Len(s) }

is_char_boundary(s, index) == index \in Boundaries(s)

Max(a, b) == IF a >= b THEN a ELSE b
Min(a, b) == IF a <= b THEN a ELSE b
saturating_sub(a, b) == IF a >= b THEN a - b ELSE 0
U16(n) == n % U16Modulus

DigitChar(d) ==
    CASE d = 0 -> "0" [] d = 1 -> "1" [] d = 2 -> "2" [] d = 3 -> "3"
      [] d = 4 -> "4" [] d = 5 -> "5" [] d = 6 -> "6" [] d = 7 -> "7"
      [] d = 8 -> "8" [] OTHER -> "9"

RECURSIVE Digits(_)
Digits(n) == IF n < 10 THEN <<DigitChar(n)>>
             ELSE Digits(n \div 10) \o <<DigitChar(n % 10)>>

----------------------------------------------------------------------------
(* Layout (tui::layout::Layout::split as called at the two call sites) *)

Rect(x, y, w, h) == [x |-> x, y |-> y, width |-> w, height |-> h]

RatioConstraints(has_members) ==
    IF has_members THEN << <<1, 4>>, <<5, 8>>, <<1, 8>> >>
    ELSE << <<1, 4>>, <<3, 4>> >>

\* n/d of `total`, truncated to a cell count
RatioOf(total, r) == (total * r[1]) \div r[2]

\* left edge of chunk i: the truncated sum of the ratios before it
RatioStart(total, cs, i) ==
    IF i = 1 THEN 0
    ELSE LET num == [j \in 1..(i - 1) |-> cs[j][1]]
             den == [j \in 1..(i - 1) |-> cs[j][2]]
             \* fold the i-1 fractions into one
             Sum[j \in 0..(i - 1)] ==
                 IF j = 0 THEN <<0, 1>>
                 ELSE <<Sum[j - 1][1] * den[j] + num[j] * Sum[j - 1][2],
                        Sum[j - 1][2] * den[j]>>
         IN (total * Sum[i - 1][1]) \div Sum[i - 1][2]

\* Direction::Horizontal split of `area` by Ratio constraints; the last chunk
\* is extended to the right edge of the area.
SplitHorizontal(area, cs) ==
    [i \in 1..Len(cs) |->
        LET x == area.x + RatioStart(area.width, cs, i)
        IN Rect(x, area.y,
                IF i = Len(cs) THEN area.x + area.width - x
                ELSE RatioOf(area.width, cs[i]),
                area.height)]

\* Direction::Vertical split of `area` by [Min(0), Length(length)]
SplitVertical(area, length) ==
    LET box == Min(length, area.height)
    IN << Rect(area.x, area.y, area.width, area.height - box),
          Rect(area.x, area.y + area.height - box, area.width, box) >>

----------------------------------------------------------------------------
(* draw: layout decision and channel labels *)

None == <<>>
Some(i) == <<i>>

\* state.selected().and_then(|idx| items.get(idx))
SelectedChannel(chs, sel) ==
    IF sel # None /\ sel[1] < Len(chs) THEN <<chs[sel[1] + 1]>> ELSE <<>>

has_members(chs, sel) ==
    LET c == SelectedChannel(chs, sel)
    IN IF c = <<>> THEN FALSE ELSE c[1].members # <<>>

unread_messages_label(channel) ==
    IF channel.unread_messages # 0
    THEN <<" ", "(">> \o Digits(channel.unread_messages) \o <<")">>
    ELSE <<>>

NoEnd == -1

\* the truncation without the boundary-seeking loop
SeekBoundaryNoLoop(name, end) == end

RECURSIVE SeekBoundary(_, _)
\* while !name.is_char_boundary(end) { end += 1 }; NoEnd when the loop can
\* never meet a boundary (end is already past the end of the string)
SeekBoundary(name, end) ==
    IF is_char_boundary(name, end) THEN end
    ELSE IF end > len(name) THEN NoEnd
    ELSE SeekBoundary(name, end + 1)

\* &name[0..end]: the characters that lie wholly before byte `end`
ByteSlice(name, end) ==
    LET n == CHOOSE k \in 0..Len(name) : len(Prefix(name, k)) = end
    IN Prefix(name, n)

\* One channel's label; panic is TRUE when the slice would abort the frame.
ChannelLabel(channel, channel_list_width) ==
    LET suffix == unread_messages_label(channel)
        channel_name == channel.name
        label == channel_name \o suffix
        label_width == width(label)
    IN IF label_width <= channel_list_width \/ suffix = <<>>
       THEN [text |-> label, end |-> len(channel_name), cut |-> FALSE,
             panic |-> FALSE]
       ELSE LET diff == label_width - channel_list_width
                end == SeekBoundary(channel_name,
                                    saturating_sub(width(channel_name), diff))
            IN IF is_char_boundary(channel_name, end)
               THEN [text |-> ByteSlice(channel_name, end) \o suffix,
                     end |-> end, cut |-> TRUE, panic |-> FALSE]
               ELSE [text |-> <<>>, end |-> end, cut |-> TRUE, panic |-> TRUE]

----------------------------------------------------------------------------
(* draw_messages *)

\* position of the first ' ' in name (0-based), or the length if there is none
RECURSIVE find_space(_)
find_space(name) ==
    IF name = <<>> \/ Head(name) = " " THEN 0 ELSE 1 + find_space(Tail(name))

displayed_name(name, first_name_only) ==
    IF first_name_only THEN Prefix(name, find_space(name)) ELSE name

RECURSIVE MaxOf(_)
\* .max().unwrap_or(0) over a sequence of widths
MaxOf(ws) == IF ws = <<>> THEN 0 ELSE Max(Head(ws), MaxOf(Tail(ws)))

max_username_width(messages) ==
    MaxOf([i \in 1..Len(messages) |->
              width(displayed_name(messages[i].from, TRUE))])

room_description(chs, sel) ==
    LET c == SelectedChannel(chs, sel)
        description == IF c = <<>> THEN "Messages" ELSE c[1].description
    IN IF description = "" THEN "Messages" ELSE description

\* textwrap::indent(from, prefix): the prefix goes before every non-empty
\* line, so an empty name stays empty.  The result's display width.
IndentedWidth(from, pad) == IF from = <<>> THEN 0 ELSE pad + width(from)

RECURSIVE BreakWords(_, _)
\* words wider than the line are cut into pieces of the line width (at least 1)
BreakWords(words, w) ==
    IF words = <<>> THEN <<>>
    ELSE IF Head(words) > Max(w, 1)
         THEN <<Max(w, 1)>> \o BreakWords(<<Head(words) - Max(w, 1)>> \o Tail(words), w)
         ELSE <<Head(words)>> \o BreakWords(Tail(words), w)

RECURSIVE Fill(_, _, _)
\* first-fit: a word joins the current line (after one space) while it fits
Fill(words, w, cur) ==
    IF words = <<>> THEN <<cur>>
    ELSE IF cur + 1 + Head(words) <= w
         THEN Fill(Tail(words), w, cur + 1 + Head(words))
         ELSE <<cur>> \o Fill(Tail(words), w, Head(words))

\* textwrap::wrap_iter(message, w): the display widths of the wrapped lines of
\* a body given as the widths of its words (at least one word, single spaces)
wrap_iter(words, w) ==
    LET ws == BreakWords(words, w)
    IN Fill(Tail(ws), w, Head(ws))

\* The block of one message: the display width of each of its lines.
MessageBlock(msg, index, max_name, interior) ==
    LET from == displayed_name(msg.from, TRUE)
        from_width == IndentedWidth(from, max_name - width(from))
        prefix_width == U16(TimeWidth + from_width + 2)
        lines == wrap_iter(msg.message, saturating_sub(interior, prefix_width))
    IN [kind |-> "message", index |-> index, prefix_width |-> prefix_width,
        lines |-> [i \in 1..Len(lines) |-> prefix_width + lines[i]]]

NewMessages == <<"n", "e", "w", " ", "m", "e", "s", "s", "a", "g", "e", "s">>

\* "-".repeat(k) + "new messages" + "-".repeat(width.saturating_sub(k))
new_message_line(max_name, interior) ==
    LET prefix_width == max_name + 8
    IN [kind |-> "divider", left |-> prefix_width, text |-> NewMessages,
        right |-> saturating_sub(interior, prefix_width)]

\* the divider put one block too late
InsertAfter(items, at, x) ==
    SubSeq(items, 1, at + 1) \o <<x>> \o SubSeq(items, at + 2, Len(items))

\* Vec::insert(at, x), 0-based
Insert(items, at, x) ==
    SubSeq(items, 1, at) \o <<x>> \o SubSeq(items, at + 1, Len(items))

\* area.width - 2 on a u16: aborts when overflow checks are on, wraps otherwise
InteriorWidth(area) ==
    IF area.width >= 2 THEN area.width - 2 ELSE U16(area.width + U16Modulus - 2)

\* draw_messages; panic_at is the source line that aborts the frame, 0 if none
draw_messages(chs, sel, area, overflow_checks) ==
    LET c == SelectedChannel(chs, sel)
        messages == IF c = <<>> THEN <<>> ELSE c[1].messages
        max_name == max_username_width(messages)
        interior == InteriorWidth(area)
        max_lines == area.height
        shown == Min(Len(messages), max_lines)
        \* .iter().rev().take(max_lines)
        blocks == [i \in 1..shown |->
                     MessageBlock(messages[Len(messages) + 1 - i],
                                  Len(messages) - i, max_name, interior)]
        unread == IF c = <<>> THEN 0 ELSE c[1].unread_messages
        items == IF sel # None /\ unread > 0 /\ unread < Len(blocks)
                 THEN Insert(blocks, unread, new_message_line(max_name, interior))
                 ELSE blocks
        panic_at == IF area.width < 2 /\ overflow_checks THEN 149
                    ELSE IF sel # None /\ sel[1] >= Len(chs) THEN 200
                    ELSE 0
    IN [panic_at |-> panic_at,
        title |-> room_description(chs, sel),
        interior |-> interior,
        max_name |-> max_name,
        max_lines |-> max_lines,
        items |-> IF panic_at = 0 THEN items ELSE <<>>,
        rendered |-> panic_at = 0]

----------------------------------------------------------------------------
(* draw_chat *)

RECURSIVE WrapInputLate(_, _, _, _)
\* the fold starting a new line one character too late
WrapInputLate(lines, idx, rest, text_width) ==
    IF rest = <<>> THEN lines
    ELSE LET started == IF idx % (text_width + 1) = 0
                        THEN Append(lines, <<>>) ELSE lines
             pushed == [started EXCEPT ![Len(started)] = Append(@, Head(rest))]
         IN WrapInputLate(pushed, idx + 1, Tail(rest), text_width)

RECURSIVE WrapInput(_, _, _, _)
\* the fold over input.chars().enumerate(): a new line starts whenever
\* idx % text_width = 0 (text_width > 0 here)
WrapInput(lines, idx, rest, text_width) ==
    IF rest = <<>> THEN lines
    ELSE LET started == IF idx % text_width = 0 THEN Append(lines, <<>>) ELSE lines
             pushed == [started EXCEPT ![Len(started)] = Append(@, Head(rest))]
         IN WrapInput(pushed, idx + 1, Tail(rest), text_width)

NotRendered ==
    [panic_at |-> 0, title |-> "", interior |-> 0, max_name |-> 0,
     max_lines |-> 0, items |-> <<>>, rendered |-> FALSE]

\* First non-zero entry: the place where the pass aborts.
RECURSIVE FirstPanic(_)
FirstPanic(ps) ==
    IF ps = <<>> THEN 0
    ELSE IF Head(ps) # 0 THEN Head(ps) ELSE FirstPanic(Tail(ps))

At(cond, line) == IF cond THEN line ELSE 0

draw_chat(chs, sel, inp, cursor_pos, area, overflow_checks) ==
    LET text_width == saturating_sub(area.width, 2)
        lines == IF text_width = 0 THEN <<>>
                 ELSE WrapInput(<<>>, 0, inp, text_width)
        num_input_lines == Max(Len(lines), 1)
        extra_cursor_line ==
            IF cursor_pos > 0 /\ text_width # 0 /\ cursor_pos % text_width = 0
            THEN 1 ELSE 0
        length == U16(num_input_lines) + 2 + extra_cursor_line
        chunks == SplitVertical(area, U16(length))
        before == FirstPanic(<<At(inp # <<>> /\ text_width = 0, 81),
                               At(cursor_pos > 0 /\ text_width = 0, 89),
                               At(overflow_checks /\ length >= U16Modulus, 100)>>)
        msgs == IF before = 0
                THEN draw_messages(chs, sel, chunks[1], overflow_checks)
                ELSE NotRendered
        col == IF text_width = 0 THEN 0
               ELSE chunks[2].x + (U16(cursor_pos) % U16(text_width)) + 1
        row == IF text_width = 0 THEN 0
               ELSE chunks[2].y + (U16(cursor_pos) \div U16(text_width)) + 1
        panic_at == FirstPanic(<<before, msgs.panic_at,
                                 At(U16(text_width) = 0, 114),
                                 At(overflow_checks /\ col >= U16Modulus, 114),
                                 At(overflow_checks /\ row >= U16Modulus, 116)>>)
    IN [panic_at |-> panic_at,
        text_width |-> text_width,
        lines |-> lines,
        num_input_lines |-> num_input_lines,
        length |-> U16(length),
        messages_area |-> chunks[1],
        input_area |-> chunks[2],
        messages |-> msgs,
        cursor |-> IF panic_at = 0 THEN <<U16(col), U16(row)>> ELSE <<>>]

----------------------------------------------------------------------------
(* draw_members *)

RoleGlyph(role) ==
    CASE role = "Admin" -> "crown"
      [] role = "Member" -> "-"
      [] OTHER -> "hourglass"

\* members.iter().rev().take(max_lines): glyph and style of each line
draw_members(chs, sel, area) ==
    LET c == SelectedChannel(chs, sel)
        members == IF c = <<>> THEN <<>> ELSE c[1].members
        shown == Min(Len(members), area.height)
    IN [i \in 1..shown |->
          LET member == members[Len(members) + 1 - i]
          IN [glyph |-> RoleGlyph(member.role),
              style |-> IF member.present = "yes" THEN "White" ELSE "Red"]]

----------------------------------------------------------------------------
(* draw: one whole redraw *)

ChatNotDrawn ==
    [panic_at |-> 0, text_width |-> 0, lines |-> <<>>, num_input_lines |-> 0,
     length |-> 0, messages_area |-> Rect(0, 0, 0, 0),
     input_area |-> Rect(0, 0, 0, 0), messages |-> NotRendered,
     cursor |-> <<>>]

draw(sz, chs, sel, inp, cursor_pos, overflow_checks) ==
    LET members_present == has_members(chs, sel)
        constraints == RatioConstraints(members_present)
        chunks == SplitHorizontal(Rect(0, 0, sz.width, sz.height), constraints)
        channel_list_width == saturating_sub(chunks[1].width, 2)
        labels == [i \in 1..Len(chs) |-> ChannelLabel(chs[i], channel_list_width)]
        label_panic == At(\E i \in 1..Len(chs) : labels[i].panic, 57)
        chat == IF label_panic = 0
                THEN draw_chat(chs, sel, inp, cursor_pos, chunks[2], overflow_checks)
                ELSE ChatNotDrawn
        panic_at == FirstPanic(<<label_panic, chat.panic_at>>)
        members_drawn == panic_at = 0 /\ members_present
    IN [status |-> IF panic_at = 0 THEN "done" ELSE "panic",
        panic_at |-> panic_at,
        overflow_checks |-> overflow_checks,
        has_members |-> members_present,
        constraints |-> constraints,
        chunks |-> chunks,
        channel_list_width |-> channel_list_width,
        labels |-> labels,
        chat |-> chat,
        members_drawn |-> members_drawn,
        members |-> IF members_drawn THEN draw_members(chs, sel, chunks[3])
                    ELSE <<>>]

----------------------------------------------------------------------------
(* State machine: the application state is changed by the collaborators     *)
(* outside ui.rs between two redraws; Draw is one call of draw.  A frame    *)
(* that aborted ends the program.                                           *)

Stale(overflow_checks) == [status |-> "stale", overflow_checks |-> overflow_checks]

NewChannel(name, description) ==
    [name |-> name, unread_messages |-> 0, messages |-> <<>>, members |-> <<>>,
     description |-> description]

Running == frame.status = "done"

Touch == frame' = Stale(frame.overflow_checks)

Draw ==
    /\ frame.status = "stale"
    /\ frame' = draw(size, channels, selected, input, input_cursor,
                     frame.overflow_checks)
    /\ UNCHANGED <<size, channels, selected, input, input_cursor>>

Widen(max_width) ==
    /\ Running /\ size.width < max_width
    /\ size' = [size EXCEPT !.width = @ + 1]
    /\ Touch /\ UNCHANGED <<channels, selected, input, input_cursor>>

Narrow ==
    /\ Running /\ size.width > 0
    /\ size' = [size EXCEPT !.width = @ - 1]
    /\ Touch /\ UNCHANGED <<channels, selected, input, input_cursor>>

Heighten ==
    /\ Running /\ size.height < MaxHeight
    /\ size' = [size EXCEPT !.height = @ + 1]
    /\ Touch /\ UNCHANGED <<channels, selected, input, input_cursor>>

Lower ==
    /\ Running /\ size.height > 0
    /\ size' = [size EXCEPT !.height = @ - 1]
    /\ Touch /\ UNCHANGED <<channels, selected, input, input_cursor>>

AddChannel(name, description) ==
    /\ Running /\ Len(channels) < MaxChannels
    /\ channels' = Append(channels, NewChannel(name, description))
    /\ Touch /\ UNCHANGED <<size, selected, input, input_cursor>>

NameChar(i, c) ==
    /\ Running /\ i \in 1..Len(channels)
    /\ Len(channels[i].name) < MaxNameLen
    /\ channels' = [channels EXCEPT ![i].name = Append(@, c)]
    /\ Touch /\ UNCHANGED <<size, selected, input, input_cursor>>

ClearName(i) ==
    /\ Running /\ i \in 1..Len(channels)
    /\ channels[i].name # <<>>
    /\ channels' = [channels EXCEPT ![i].name = <<>>]
    /\ Touch /\ UNCHANGED <<size, selected, input, input_cursor>>

IncUnread(i) ==
    /\ Running /\ i \in 1..Len(channels)
    /\ channels[i].unread_messages < MaxUnread
    /\ channels' = [channels EXCEPT ![i].unread_messages = @ + 1]
    /\ Touch /\ UNCHANGED <<size, selected, input, input_cursor>>

MarkRead(i) ==
    /\ Running /\ i \in 1..Len(channels)
    /\ channels[i].unread_messages # 0
    /\ channels' = [channels EXCEPT ![i].unread_messages = 0]
    /\ Touch /\ UNCHANGED <<size, selected, input, input_cursor>>

PushMessage(i, msg) ==
    /\ Running /\ i \in 1..Len(channels)
    /\ Len(channels[i].messages) < MaxMessages
    /\ channels' = [channels EXCEPT ![i].messages = Append(@, msg)]
    /\ Touch /\ UNCHANGED <<size, selected, input, input_cursor>>

AddMember(i, member) ==
    /\ Running /\ i \in 1..Len(channels)
    /\ channels[i].members = <<>>
    /\ channels' = [channels EXCEPT ![i].members = Append(@, member)]
    /\ Touch /\ UNCHANGED <<size, selected, input, input_cursor>>

Select(sel) ==
    /\ Running /\ sel # selected
    /\ selected' = sel
    /\ Touch /\ UNCHANGED <<size, channels, input, input_cursor>>

\* a character typed at the cursor
InsertChar(c) ==
    /\ Running /\ Len(input) < MaxInput
    /\ input' = SubSeq(input, 1, input_cursor) \o <<c>>
                 \o SubSeq(input, input_cursor + 1, Len(input))
    /\ input_cursor' = input_cursor + 1
    /\ Touch /\ UNCHANGED <<size, channels, selected>>

CursorLeft ==
    /\ Running /\ input_cursor > 0
    /\ input_cursor' = input_cursor - 1
    /\ Touch /\ UNCHANGED <<size, channels, selected, input>>

CursorRight ==
    /\ Running /\ input_cursor < Len(input)
    /\ input_cursor' = input_cursor + 1
    /\ Touch /\ UNCHANGED <<size, channels, selected, input>>

NameChars == {"a", "e'", "zh", "em", "cm"}
InputChars == {"a", "b"}
Messages == {[from |-> <<"a">>, message |-> <<2>>],
             [from |-> <<"b", "o", "b", " ", "x">>, message |-> <<3, 4>>]}
Members == {[role |-> "Admin", present |-> "yes"],
            [role |-> "Invited", present |-> "unknown"]}

InitWith(sz, chs, sel) ==
    /\ size = sz
    /\ channels = chs
    /\ selected = sel
    /\ input = <<>>
    /\ input_cursor = 0
    /\ frame \in {Stale(TRUE), Stale(FALSE)}

(* Spec: selection, members and the region split on small screens *)

Init == InitWith([width |-> MaxSmallWidth, height |-> MaxHeight], <<>>, None)

Next ==
    \/ Draw
    \/ Widen(MaxSmallWidth)
    \/ Narrow
    \/ Heighten
    \/ Lower
    \/ \E d \in {"", "topic"} : AddChannel(<<"a">>, d)
    \/ \E i \in 1..MaxChannels, m \in Members : AddMember(i, m)
    \/ \E i \in 1..MaxChannels, msg \in {[from |-> <<"a">>, message |-> <<2>>]} :
          PushMessage(i, msg)
    \/ \E i \in 1..MaxChannels : IncUnread(i)
    \/ \E sel \in {None} \cup {Some(i) : i \in 0..MaxChannels} : Select(sel)

Spec == Init /\ [][Next]_vars

(* SpecChannels: the channel list and its labels *)

InitChannels ==
    InitWith([width |-> MaxListWidth, height |-> MaxHeight],
             <<NewChannel(<<>>, "")>>, None)

NextChannels ==
    \/ Draw
    \/ Widen(MaxListWidth)
    \/ Narrow
    \/ \E c \in NameChars : NameChar(1, c)
    \/ ClearName(1)
    \/ IncUnread(1)
    \/ MarkRead(1)

SpecChannels == InitChannels /\ [][NextChannels]_vars

(* SpecChat: the input box and the cursor *)

InitChat == InitWith([width |-> MaxSmallWidth, height |-> MaxHeight], <<>>, None)

NextChat ==
    \/ Draw
    \/ Widen(MaxSmallWidth)
    \/ Narrow
    \/ Heighten
    \/ Lower
    \/ \E c \in InputChars : InsertChar(c)
    \/ CursorLeft
    \/ CursorRight

SpecChat == InitChat /\ [][NextChat]_vars

(* SpecMessages: the message pane of the selected channel *)

InitMessages ==
    InitWith([width |-> MaxPaneWidth, height |-> MaxHeight],
             <<NewChannel(<<"a">>, "topic")>>, Some(0))

NextMessages ==
    \/ Draw
    \/ Widen(MaxPaneWidth)
    \/ Narrow
    \/ Heighten
    \/ Lower
    \/ \E msg \in Messages : PushMessage(1, msg)
    \/ IncUnread(1)
    \/ MarkRead(1)
    \/ \E sel \in {None, Some(0)} : Select(sel)

SpecMessages == InitMessages /\ [][NextMessages]_vars

----------------------------------------------------------------------------
(* Properties *)

Drawn == frame.status # "stale"

ScreenRect == Rect(0, 0, size.width, size.height)

\* C1: every redraw runs to completion, whatever the screen size, the input
\* and the cursor: the input text width used as divisor is at least 1 and the
\* message pane's interior width never goes below 0 (never wraps around).
C1_RedrawNeverAborts ==
    Drawn =>
        /\ frame.status = "done"
        /\ frame.chat.text_width >= 1
        /\ frame.chat.messages.interior <= frame.chat.messages_area.width

SelectionOutOfRange == selected # None /\ selected[1] >= Len(channels)

\* C2: with a selection index that is out of range the redraw does not fail
\* and behaves as with no selection: two regions, an empty message pane
\* titled "Messages", no member pane, no unread divider.
C2_OutOfRangeSelectionDegrades ==
    (Drawn /\ SelectionOutOfRange) =>
        /\ frame.status = "done"
        /\ Len(frame.chunks) = 2
        /\ frame.chat.messages.rendered
        /\ frame.chat.messages.items = <<>>
        /\ frame.chat.messages.title = "Messages"
        /\ ~frame.members_drawn

ExpectedSuffix(unread) ==
    IF unread = 0 THEN <<>> ELSE <<" ", "(">> \o Digits(unread) \o <<")">>

\* C3: every channel label is a prefix of the name that ends on a character
\* boundary at or before the end of the name (the boundary-seeking loop
\* terminates, no code point is split), followed by the complete unread
\* suffix " (<count>)" whenever the unread count is not zero.
C3_LabelIsPrefixPlusSuffix ==
    Drawn =>
        \A i \in 1..Len(channels) :
            LET l == frame.labels[i]
                name == channels[i].name
            IN /\ ~l.panic
               /\ l.end # NoEnd
               /\ l.end <= len(name)
               /\ \E k \in 0..Len(name) :
                     /\ len(Prefix(name, k)) = l.end
                     /\ l.text = Prefix(name, k)
                                   \o ExpectedSuffix(channels[i].unread_messages)

\* the byte index the truncation starts from, before the boundary is sought
FirstEnd(i) ==
    saturating_sub(width(channels[i].name),
                   width(channels[i].name
                           \o ExpectedSuffix(channels[i].unread_messages))
                     - frame.channel_list_width)

\* a label was cut and the loop had to move forward to reach a boundary
C3_Witness ==
    /\ Drawn
    /\ frame.labels[1].cut
    /\ ~frame.labels[1].panic
    /\ ~is_char_boundary(channels[1].name, FirstEnd(1))
    /\ frame.labels[1].end > FirstEnd(1)

Overflowing(i) ==
    /\ channels[i].unread_messages # 0
    /\ width(channels[i].name \o ExpectedSuffix(channels[i].unread_messages))
         > frame.channel_list_width
    /\ width(ExpectedSuffix(channels[i].unread_messages))
         <= frame.channel_list_width

\* C4: a label with an unread suffix that is wider than the interior width W
\* of the channel column (the suffix alone fitting) has its name shortened by
\* the overflow in display-width units, so the final label is at most W wide.
C4_CutLabelFits ==
    Drawn =>
        \A i \in 1..Len(channels) :
            Overflowing(i) =>
                LET l == frame.labels[i]
                    suffix == ExpectedSuffix(channels[i].unread_messages)
                    overflow == width(channels[i].name \o suffix)
                                  - frame.channel_list_width
                IN /\ ~l.panic
                   /\ width(l.text) = width(channels[i].name) + width(suffix)
                                        - overflow
                   /\ width(l.text) <= frame.channel_list_width

\* C5: with text_width >= 1 and the cursor within the input, the cursor cell
\* lies in the interior of the rectangle allotted to the input box: column
\* offset 1 + (c mod text_width) <= text_width, row offset
\* 1 + (c div text_width) <= box height - 2, the box being
\* line_count + 2 (+ 1 when c is a positive multiple of text_width) high.
C5_CursorInsideInputBox ==
    (Drawn /\ frame.chat.cursor # <<>> /\ frame.chat.text_width >= 1
       /\ input_cursor <= Len(input)) =>
        LET box == frame.chat.input_area
            tw == frame.chat.text_width
            col == frame.chat.cursor[1] - box.x
            row == frame.chat.cursor[2] - box.y
            extra == IF input_cursor > 0 /\ input_cursor % tw = 0 THEN 1 ELSE 0
        IN /\ col = 1 + (input_cursor % tw)
           /\ col <= tw
           /\ row = 1 + (input_cursor \div tw)
           /\ box.height = frame.chat.num_input_lines + 2 + extra
           /\ row <= box.height - 2

MessageItems ==
    {i \in 1..Len(frame.chat.messages.items) :
        frame.chat.messages.items[i].kind = "message"}

DividerItems ==
    {i \in 1..Len(frame.chat.messages.items) :
        frame.chat.messages.items[i].kind = "divider"}

\* C6: every line of every rendered message block is at most as wide as the
\* pane's interior (pane width minus 2), also when the interior is narrower
\* than the prefix "HH:MM " + name + ": ".
C6_MessageLinesFit ==
    (Drawn /\ frame.chat.messages.rendered) =>
        \A i \in MessageItems :
            LET block == frame.chat.messages.items[i]
            IN \A j \in 1..Len(block.lines) :
                  block.lines[j] <= frame.chat.messages_area.width - 2

SelectedMessages ==
    IF selected # None /\ selected[1] < Len(channels)
    THEN channels[selected[1] + 1].messages ELSE <<>>

SelectedUnread ==
    IF selected # None /\ selected[1] < Len(channels)
    THEN channels[selected[1] + 1].unread_messages ELSE 0

RenderedCount == Min(Len(SelectedMessages), frame.chat.messages_area.height)

\* C7: with rendered = min(messages, max_lines) blocks taken newest-first, the
\* list handed to the renderer holds exactly one divider if
\* 0 < unread < rendered, with the unread newest blocks before it and the
\* other rendered - unread after it; otherwise (unread = 0, unread >= rendered,
\* nothing selected) it holds no divider and exactly the rendered blocks.
C7_DividerPlacement ==
    (Drawn /\ frame.chat.messages.rendered) =>
        LET items == frame.chat.messages.items
            n == Len(SelectedMessages)
            unread == SelectedUnread
        IN IF 0 < unread /\ unread < RenderedCount
           THEN /\ Len(items) = RenderedCount + 1
                /\ DividerItems = {unread + 1}
                /\ \A i \in 1..unread :
                      items[i].kind = "message" /\ items[i].index = n - i
                /\ \A i \in (unread + 2)..(RenderedCount + 1) :
                      items[i].kind = "message" /\ items[i].index = n - (i - 1)
           ELSE /\ Len(items) = RenderedCount
                /\ DividerItems = {}
                /\ \A i \in 1..RenderedCount : items[i].index = n - i

\* a divider stands after two unread blocks and before a read one
C7_Witness ==
    /\ Drawn
    /\ frame.chat.messages.rendered
    /\ SelectedUnread = 2
    /\ RenderedCount >= 3
    /\ DividerItems # {}

\* C8: an inserted divider reads k dashes, "new messages", then
\* max(0, interior - k - 12) dashes, k = max_username_width + 8; so it is
\* exactly as wide as the interior whenever interior >= k + 12.
C8_DividerText ==
    (Drawn /\ frame.chat.messages.rendered) =>
        \A i \in DividerItems :
            LET d == frame.chat.messages.items[i]
                k == frame.chat.messages.max_name + 8
                interior == frame.chat.messages.interior
            IN /\ d.left = k
               /\ d.text = NewMessages
               /\ d.right = Max(0, interior - k - Len(NewMessages))
               /\ (interior >= k + Len(NewMessages) =>
                     d.left + width(d.text) + d.right = interior)

RECURSIVE Concat(_)
Concat(ls) == IF ls = <<>> THEN <<>> ELSE Head(ls) \o Concat(Tail(ls))

CeilDiv(n, d) == (n + d - 1) \div d

\* C9: for an input of n characters and text_width >= 1 the wrapping gives
\* max(1, ceil(n / text_width)) lines, every line but the last holds exactly
\* text_width characters, no line is empty when n > 0, and the lines
\* concatenated give the input back.
C9_InputWrapping ==
    (Drawn /\ frame.chat.text_width >= 1) =>
        LET lines == frame.chat.lines
            tw == frame.chat.text_width
            n == Len(input)
        IN /\ frame.chat.num_input_lines = Max(1, CeilDiv(n, tw))
           /\ Len(lines) = CeilDiv(n, tw)
           /\ \A i \in 1..(Len(lines) - 1) : Len(lines[i]) = tw
           /\ \A i \in 1..Len(lines) : lines[i] # <<>>
           /\ Concat(lines) = input

\* the input fills one line and part of a second
C9_Witness ==
    /\ Drawn
    /\ frame.chat.text_width >= 2
    /\ Len(frame.chat.lines) = 2
    /\ Len(frame.chat.lines[2]) < frame.chat.text_width
    /\ input # <<>>

MembersSelected ==
    /\ selected # None
    /\ selected[1] < Len(channels)
    /\ channels[selected[1] + 1].members # <<>>

\* C10: on every redraw the screen is split into three regions 1/4, 5/8, 1/8
\* and the member pane is drawn if and only if a channel is selected and has
\* members; otherwise it is split into two regions 1/4, 3/4 and no member
\* pane is drawn.
C10_RegionsFollowMembers ==
    Drawn =>
        IF MembersSelected
        THEN /\ Len(frame.chunks) = 3
             /\ frame.constraints = << <<1, 4>>, <<5, 8>>, <<1, 8>> >>
             /\ frame.members_drawn
        ELSE /\ Len(frame.chunks) = 2
             /\ frame.constraints = << <<1, 4>>, <<3, 4>> >>
             /\ ~frame.members_drawn

====
